---- MODULE Spec2Model ----
(***************************************************************************)
(* Rock-Paper-Scissors Plus with an external judge (src/game.py).          *)
(*                                                                         *)
(* GameState, AIJudge and GameEngine are modelled as a state machine.  A   *)
(* play_round call is suspended while the external service is answering:   *)
(* PlayRoundCall runs play_round up to the generate_content request, and    *)
(* GenerateContentRaises / GenerateContentReturns run the rest of           *)
(* judge_move and of play_round on the service's answer.                    *)
(*                                                                         *)
(* Python values are tagged records [t, v]; a text is a sequence of         *)
(* characters in which a whole JSON document counts as one character.       *)
(***************************************************************************)
EXTENDS Integers, Sequences, FiniteSets, TLC

VARIABLES
    round_num,       \* GameState.round_num
    bomb_used,       \* GameState.bomb_used
    user_score,      \* GameState.user_score
    bot_score,       \* GameState.bot_score
    rounds_history,  \* GameState.rounds_history
    pc,              \* "idle", or "judging" while generate_content is outstanding
    user_input,      \* play_round's argument (of the current or last call)
    bot_move,        \* play_round's local bot_move
    request,         \* the prompt context sent to the service
    round_judgment,  \* play_round's local judgment, once judge_move has returned
    returned,        \* what the last play_round call returned, once it has
    final,           \* what get_final_result returned, if called since the last round
    escaped,         \* TRUE when an exception left play_round
    calls,           \* number of play_round calls started
    service_calls,   \* number of generate_content invocations
    outcome,         \* what the service did in the last exchange
    vj_in,           \* _validate_judgment: the decoded value it is applied to
    vj_out,          \* _validate_judgment: what it produced
    parse_in,        \* _parse_llm_response: a reply body and the fence put around it
    parse_out,       \* _parse_llm_response: what it gave for the body, bare and fenced
    main_pc,         \* main: "key", "loop", "over", or "aborted" without an API key
    prompts,         \* main: move prompts shown so far (the loop index i)
    nonempty,        \* main: how many of the moves entered were not empty
    finals           \* main: number of get_final_result calls

game_vars == <<round_num, bomb_used, user_score, bot_score, rounds_history, pc,
               user_input, bot_move, request, round_judgment, returned, final,
               escaped, calls, service_calls, outcome>>
validate_vars == <<vj_in, vj_out>>
parse_vars == <<parse_in, parse_out>>
main_vars == <<main_pc, prompts, nonempty, finals>>

vars == <<game_vars, validate_vars, parse_vars, main_vars>>

----------------------------------------------------------------------------
(* Bounds *)

\* play_round calls made on one game
MaxRounds == 2

----------------------------------------------------------------------------
(* Python values *)

None == [t |-> "null", v |-> ""]
True == [t |-> "bool", v |-> "true"]
False == [t |-> "bool", v |-> "false"]
Str(s) == [t |-> "str", v |-> s]
Num(s) == [t |-> "num", v |-> s]

\* Python truth value of a JSON scalar, as `if x:` tests it
Truthy(x) ==
    CASE x.t = "null" -> FALSE
      [] x.t = "bool" -> x.v = "true"
      [] x.t = "num"  -> x.v # "0"
      [] x.t = "str"  -> x.v # ""

----------------------------------------------------------------------------
(* Texts *)

WS == {" ", "\n"}
\* the grave accent, which a TLA+ string cannot hold
Backtick == "BACKTICK"
Fence == <<Backtick, Backtick, Backtick>>
FenceJson == Fence \o <<"j", "s", "o", "n">>

\* str.startswith / str.endswith
StartsWith(s, p) == Len(s) >= Len(p) /\ SubSeq(s, 1, Len(p)) = p
EndsWith(s, p) == Len(s) >= Len(p) /\ SubSeq(s, Len(s) - Len(p) + 1, Len(s)) = p

\* str.strip(): drop leading and trailing whitespace
RECURSIVE LStrip(_)
LStrip(s) == IF s # <<>> /\ Head(s) \in WS THEN LStrip(Tail(s)) ELSE s
RECURSIVE RStrip(_)
RStrip(s) ==
    IF s # <<>> /\ s[Len(s)] \in WS THEN RStrip(SubSeq(s, 1, Len(s) - 1)) ELSE s
Strip(s) == RStrip(LStrip(s))

----------------------------------------------------------------------------
(* Decoded JSON values and exceptions *)

\* a Python dict with string keys, and any other decoded JSON value
Dict(f) == [kind |-> "dict", fields |-> f]
NonDict(k) == [kind |-> k, fields |-> <<>>]
Get(d, k) == d.fields[k]

\* a call that returns a value, and a call that raises
Ok(x) == [raised |-> FALSE, value |-> x, type |-> "", msg |-> ""]
Raise(ty, m) == [raised |-> TRUE, value |-> NonDict("NoneType"), type |-> ty, msg |-> m]

\* the exception classes that occur, all of them subclasses of Exception
ServiceErrors == {"ServiceUnavailable"}
ExceptionSubclasses == ServiceErrors \cup {"JSONDecodeError", "TypeError"}

RequiredFields ==
    {"move_validity", "user_move", "reasoning",
     "round_winner", "round_explanation", "bomb_used_this_round"}

\* a judgment object with all six fields
Judgment(validity, move, reasoning, winner, explanation, bomb) ==
    Dict([move_validity |-> validity, user_move |-> move, reasoning |-> reasoning,
          round_winner |-> winner, round_explanation |-> explanation,
          bomb_used_this_round |-> bomb])

\* the same object without the keys in K
Without(d, K) == Dict([k \in DOMAIN d.fields \ K |-> d.fields[k]])

----------------------------------------------------------------------------
(* JSON documents the service may put in its reply: name -> decoded value *)

Documents ==
    [ user_wins    |-> Judgment(Str("VALID"), Str("rock"), Str("r"), Str("user"), Str("e"), False),
      bot_wins     |-> Judgment(Str("VALID"), Str("scissors"), Str("r"), Str("bot"), Str("e"), False),
      draw         |-> Judgment(Str("VALID"), Str("rock"), Str("r"), Str("draw"), Str("e"), False),
      bomb         |-> Judgment(Str("VALID"), Str("bomb"), Str("r"), Str("user"), Str("e"), True),
      invalid      |-> Judgment(Str("INVALID"), None, Str("r"), Str("bot"), Str("e"), False),
      unclear_user |-> Judgment(Str("UNCLEAR"), None, Str("r"), Str("user"), Str("e"), False),
      \* out-of-enum values
      tie          |-> Judgment(Str("VALID"), Str("scissors"), Str("r"), Str("tie"), Str("e"), Num("0")),
      maybe        |-> Without(Judgment(Str("maybe"), Str("bomb"), None, Str("user"), Str("e"), Str("yes")),
                               {"reasoning"}),
      \* missing fields
      no_flag      |-> Without(Judgment(Str("VALID"), Str("rock"), Str("r"), Str("draw"), Str("e"), None),
                               {"bomb_used_this_round"}),
      empty        |-> Dict(<<>>),
      \* values that are no object
      list         |-> NonDict("list"),
      string       |-> NonDict("str"),
      number       |-> NonDict("int"),
      null         |-> NonDict("NoneType") ]

DocumentNames == DOMAIN Documents

\* json.loads: the text, whitespace around it aside, is one whole document
JsonLoads(text) ==
    LET s == Strip(text) IN
    IF Len(s) = 1 /\ s[1] \in DocumentNames
    THEN Ok(Documents[s[1]])
    ELSE Raise("JSONDecodeError", "Expecting value")

----------------------------------------------------------------------------
(* AIJudge *)

\* _parse_llm_response: strip, drop a leading ```json, then a leading ```,
\* then a trailing ```, strip again and decode
\* variant: six characters cut for the seven of the json fence marker
ParseLlmResponseShortCut(response_text) ==
    LET t0 == Strip(response_text)
        t1 == IF StartsWith(t0, FenceJson) THEN SubSeq(t0, 7, Len(t0)) ELSE t0
        t2 == IF StartsWith(t1, Fence) THEN SubSeq(t1, 4, Len(t1)) ELSE t1
        t3 == IF EndsWith(t2, Fence) THEN SubSeq(t2, 1, Len(t2) - 3) ELSE t2
    IN  JsonLoads(Strip(t3))

ParseLlmResponse(response_text) ==
    LET t0 == Strip(response_text)
        t1 == IF StartsWith(t0, FenceJson) THEN SubSeq(t0, 8, Len(t0)) ELSE t0
        t2 == IF StartsWith(t1, Fence) THEN SubSeq(t1, 4, Len(t1)) ELSE t1
        t3 == IF EndsWith(t2, Fence) THEN SubSeq(t2, 1, Len(t2) - 3) ELSE t2
    IN  JsonLoads(Strip(t3))

ValidValidities == {Str("VALID"), Str("INVALID"), Str("UNCLEAR")}
ValidWinners == {Str("user"), Str("bot"), Str("draw")}

\* variant: a missing field is filled with the empty string
FillMissingEmpty(fields) ==
    [k \in DOMAIN fields \cup RequiredFields |->
        IF k \in DOMAIN fields THEN fields[k] ELSE Str("")]

\* for field in required_fields: if field not in judgment: judgment[field] = None
FillMissing(fields) ==
    [k \in DOMAIN fields \cup RequiredFields |->
        IF k \in DOMAIN fields THEN fields[k] ELSE None]

\* variant: "UNCLEAR" left out of the accepted values
CoerceValidityNoUnclear(fields) ==
    IF fields["move_validity"] \notin {Str("VALID"), Str("INVALID")}
    THEN [fields EXCEPT !["move_validity"] = Str("INVALID")]
    ELSE fields

\* if judgment["move_validity"] not in [...]: judgment["move_validity"] = "INVALID"
CoerceValidity(fields) ==
    IF fields["move_validity"] \notin ValidValidities
    THEN [fields EXCEPT !["move_validity"] = Str("INVALID")]
    ELSE fields

\* variant: the winner is not checked
CoerceWinnerSkip(fields) == fields

\* variant: the default winner is "draw"
CoerceWinnerDraw(fields) ==
    IF fields["round_winner"] \notin ValidWinners
    THEN [fields EXCEPT !["round_winner"] = Str("draw")]
    ELSE fields

\* if judgment["round_winner"] not in [...]: judgment["round_winner"] = "bot"
CoerceWinner(fields) ==
    IF fields["round_winner"] \notin ValidWinners
    THEN [fields EXCEPT !["round_winner"] = Str("bot")]
    ELSE fields

\* _validate_judgment.  On a value that is not a dict a TypeError is raised:
\* by the `in` test for a number, a boolean or None, and for a list or a
\* string by the item assignment or, when it holds all six names, by the
\* subscript judgment["move_validity"].
ValidateJudgment(judgment) ==
    IF judgment.kind # "dict"
    THEN Raise("TypeError", "TypeError")
    ELSE Ok(Dict(CoerceWinner(CoerceValidity(FillMissing(judgment.fields)))))

\* USER_PROMPT_TEMPLATE.format(...): the context block of the request
UserPrompt(n, used, input, move) ==
    [round_num |-> n, bomb_used |-> IF used THEN "True" ELSE "False",
     user_input |-> input, bot_move |-> move]

\* What model.generate_content(...) and response.text do: raise, or give a text
Exception(ty) == [kind |-> "exception", type |-> ty, text |-> <<>>]
Text(t) == [kind |-> "text", type |-> "", text |-> t]

\* the try block of judge_move
JudgeMoveTry(reply) ==
    IF reply.kind = "exception"
    THEN Raise(reply.type, reply.type)
    ELSE LET result == ParseLlmResponse(reply.text) IN
         IF result.raised THEN result ELSE ValidateJudgment(result.value)

\* the fallback judgment of the except clause
Fallback(e) ==
    Judgment(Str("INVALID"), None, Str("Error processing move: " \o e.msg),
             Str("bot"), Str("Technical error - bot wins by default"), False)

\* variant: except json.JSONDecodeError
ExceptJsonDecodeError(e) == e.type = "JSONDecodeError"

\* variant: only the errors of the service call are caught
ExceptServiceError(e) == e.type \in ServiceErrors

\* except Exception as e
ExceptException(e) == e.type \in ExceptionSubclasses

\* judge_move: what it returns, or the exception that leaves it
JudgeMove(reply) ==
    LET r == JudgeMoveTry(reply) IN
    IF r.raised /\ ExceptException(r) THEN Ok(Fallback(r)) ELSE r

----------------------------------------------------------------------------
(* GameState *)

UseBomb(used) == TRUE

\* variant: round_num = 1 in place of round_num += 1
IncrementRoundAssign(n) == 1

IncrementRound(n) == n + 1

\* variant: else in place of elif winner == "bot"
UpdateScoreElse(scores, winner) ==
    IF winner = Str("user") THEN [scores EXCEPT !.user = @ + 1]
    ELSE [scores EXCEPT !.bot = @ + 1]

\* variant: elif winner == "Bot"
UpdateScoreCapital(scores, winner) ==
    IF winner = Str("user") THEN [scores EXCEPT !.user = @ + 1]
    ELSE IF winner = Str("Bot") THEN [scores EXCEPT !.bot = @ + 1]
    ELSE scores

\* scores is [user, bot]
UpdateScore(scores, winner) ==
    IF winner = Str("user") THEN [scores EXCEPT !.user = @ + 1]
    ELSE IF winner = Str("bot") THEN [scores EXCEPT !.bot = @ + 1]
    ELSE scores

----------------------------------------------------------------------------
(* Inputs *)

\* the text play_round is called with; the engine only stores it and sends it on
UserInputs == {"use my bomb"}

\* random.choice(["rock", "paper", "scissors"])
\* variant: the bot chooses among all of valid_moves
BotMovesWithBomb == {"rock", "paper", "scissors", "bomb"}

\* random.choice(["rock", "paper", "scissors"])
BotMoves == {"rock", "paper", "scissors"}

\* a reply body as the service may wrap it
Wrap(w, body) ==
    CASE w = "bare"   -> body
      [] w = "padded" -> <<" ">> \o body \o <<"\n">>
      [] w = "json"   -> FenceJson \o <<"\n">> \o body \o <<"\n">> \o Fence
      [] w = "plain"  -> Fence \o <<"\n">> \o body \o <<"\n">> \o Fence \o <<"\n">>
Wrappers == {"bare", "padded", "json", "plain"}

\* reply texts that hold no single document
BrokenTexts ==
    { <<>>, <<"j", "s", "o", "n">>, Fence, FenceJson,
      <<"user_wins", "bot_wins">>,
      Wrap("json", Wrap("json", <<"user_wins">>)) }

ReplyTexts ==
    {Wrap(w, <<d>>) : w \in Wrappers, d \in DocumentNames} \cup BrokenTexts

----------------------------------------------------------------------------
(* GameEngine *)

NoReturn == [op |-> "none"]
NoJudgment == NonDict("NoneType")
NoRequest == UserPrompt(0, FALSE, "", "")

\* variant: the round is numbered by the length of the history before the append
RoundRecordZeroBased(n, input, judgment, move) ==
    [round |-> n - 1, user_input |-> input, user_move |-> Get(judgment, "user_move"),
     bot_move |-> move, validity |-> Get(judgment, "move_validity"),
     winner |-> Get(judgment, "round_winner"),
     reasoning |-> Get(judgment, "reasoning")]

\* the entry play_round appends to rounds_history
RoundRecord(n, input, judgment, move) ==
    [round |-> n, user_input |-> input, user_move |-> Get(judgment, "user_move"),
     bot_move |-> move, validity |-> Get(judgment, "move_validity"),
     winner |-> Get(judgment, "round_winner"),
     reasoning |-> Get(judgment, "reasoning")]

\* variant: the response is built from the scores held before update_score
FormatRoundResponseEarly(n, scores, judgment, move, input) ==
    [op |-> "play_round", round_number |-> n, user_input |-> input,
     user_move |-> Get(judgment, "user_move"), bot_move |-> move,
     validity |-> Get(judgment, "move_validity"),
     winner |-> Get(judgment, "round_winner"),
     reasoning |-> Get(judgment, "reasoning"),
     explanation |-> Get(judgment, "round_explanation"),
     current_score |-> [user |-> user_score, bot |-> bot_score]]

\* _format_round_response
FormatRoundResponse(n, scores, judgment, move, input) ==
    [op |-> "play_round", round_number |-> n, user_input |-> input,
     user_move |-> Get(judgment, "user_move"), bot_move |-> move,
     validity |-> Get(judgment, "move_validity"),
     winner |-> Get(judgment, "round_winner"),
     reasoning |-> Get(judgment, "reasoning"),
     explanation |-> Get(judgment, "round_explanation"),
     current_score |-> scores]

\* variant: bomb_used = bool(judgment["bomb_used_this_round"])
MarkBombAssign(used, judgment) == Truthy(Get(judgment, "bomb_used_this_round"))

\* variant: if judgment["bomb_used_this_round"] is True
MarkBombIsTrue(used, judgment) ==
    IF Get(judgment, "bomb_used_this_round") = True THEN UseBomb(used) ELSE used

\* if judgment["bomb_used_this_round"]: self.state.use_bomb()
MarkBomb(used, judgment) ==
    IF Truthy(Get(judgment, "bomb_used_this_round")) THEN UseBomb(used) ELSE used

\* variant: user_score >= bot_score
VerdictAtLeast(user, bot) ==
    IF user >= bot THEN "User wins!"
    ELSE IF bot > user THEN "Bot wins!"
    ELSE "Draw!"

\* the verdict of get_final_result
Verdict(user, bot) ==
    IF user > bot THEN "User wins!"
    ELSE IF bot > user THEN "Bot wins!"
    ELSE "Draw!"

\* play_round up to the request: increment_round, get_bot_move, the prompt,
\* and the call of generate_content
PlayRoundStart(input) ==
    /\ pc = "idle"
    /\ \E move \in BotMoves :
        /\ round_num' = IncrementRound(round_num)
        /\ user_input' = input
        /\ bot_move' = move
        /\ request' = UserPrompt(round_num', bomb_used, input, move)
    /\ pc' = "judging"
    /\ calls' = calls + 1
    /\ service_calls' = service_calls + 1
    /\ escaped' = FALSE
    /\ round_judgment' = NoJudgment
    /\ returned' = NoReturn
    /\ final' = NoReturn
    /\ outcome' = "none"
    /\ UNCHANGED <<bomb_used, user_score, bot_score, rounds_history>>

\* a play_round call on the engine alone
PlayRoundCall(input) ==
    /\ calls < MaxRounds
    /\ PlayRoundStart(input)
    /\ UNCHANGED <<validate_vars, parse_vars, main_vars>>

\* what the service did, as far as the judge distinguishes it
Outcome(reply) ==
    IF reply.kind = "exception" THEN "exception"
    ELSE LET result == ParseLlmResponse(reply.text) IN
         IF result.raised THEN "undecodable" ELSE result.value.kind

\* variant: the except clause calls the service once more
ExtraInvocationsRetry(reply) == IF Outcome(reply) \in {"exception", "undecodable"} THEN 1 ELSE 0

\* generate_content invocations judge_move makes after the first one: the
\* except clause returns the fallback and does not call the service again
ExtraInvocations(reply) == 0

\* the rest of judge_move and of play_round, once the service has answered
PlayRoundResume(reply) ==
    LET judged == JudgeMove(reply) IN
    /\ pc' = "idle"
    /\ outcome' = Outcome(reply)
    /\ service_calls' = service_calls + ExtraInvocations(reply)
    /\ IF judged.raised
       THEN /\ escaped' = TRUE
            /\ UNCHANGED <<bomb_used, user_score, bot_score, rounds_history,
                           round_judgment, returned>>
       ELSE LET scores == UpdateScore([user |-> user_score, bot |-> bot_score],
                                      Get(judged.value, "round_winner"))
            IN  /\ round_judgment' = judged.value
                /\ bomb_used' = MarkBomb(bomb_used, round_judgment')
                /\ user_score' = scores.user
                /\ bot_score' = scores.bot
                /\ rounds_history' =
                       Append(rounds_history,
                              RoundRecord(round_num, user_input, round_judgment', bot_move))
                /\ returned' = FormatRoundResponse(round_num, scores, round_judgment',
                                                   bot_move, user_input)
                /\ UNCHANGED escaped
    /\ UNCHANGED <<round_num, user_input, bot_move, request, final, calls,
                   validate_vars, parse_vars, main_vars>>

\* generate_content, or reading response.text, raises
GenerateContentRaises ==
    /\ pc = "judging"
    /\ \E ty \in ServiceErrors : PlayRoundResume(Exception(ty))

\* generate_content returns a response with a text
GenerateContentReturns ==
    /\ pc = "judging"
    /\ \E t \in ReplyTexts : PlayRoundResume(Text(t))

\* what get_final_result returns in the current state
FinalResult ==
    [op |-> "get_final_result",
     result |-> Verdict(user_score, bot_score),
     final_score |-> [user |-> user_score, bot |-> bot_score],
     rounds_played |-> round_num,
     history |-> rounds_history]

GetFinalResult ==
    /\ pc = "idle"
    /\ final' = FinalResult
    /\ UNCHANGED <<round_num, bomb_used, user_score, bot_score, rounds_history,
                   pc, user_input, bot_move, request, round_judgment, returned, escaped,
                   calls, service_calls, outcome, validate_vars, parse_vars,
                   main_vars>>

NotValidated == Raise("", "")
NotParsed == [bare |-> Raise("", ""), fenced |-> Raise("", "")]
NoBody == [body |-> <<>>, tag |-> "", sep |-> <<>>, pad |-> <<>>]

\* GameState.__init__, and no call made yet
GameInit ==
    /\ round_num = 0
    /\ bomb_used = FALSE
    /\ user_score = 0
    /\ bot_score = 0
    /\ rounds_history = <<>>
    /\ pc = "idle"
    /\ user_input = ""
    /\ bot_move = ""
    /\ request = NoRequest
    /\ round_judgment = NoJudgment
    /\ returned = NoReturn
    /\ final = NoReturn
    /\ escaped = FALSE
    /\ calls = 0
    /\ service_calls = 0
    /\ outcome = "none"

\* the parts of the state the engine on its own does not use
ValidateIdle == vj_in = NonDict("NoneType") /\ vj_out = NotValidated
ParseIdle == parse_in = NoBody /\ parse_out = NotParsed
MainIdle == main_pc = "key" /\ prompts = 0 /\ nonempty = 0 /\ finals = 0

Init == GameInit /\ ValidateIdle /\ ParseIdle /\ MainIdle

Next ==
    \/ \E input \in UserInputs : PlayRoundCall(input)
    \/ GenerateContentRaises
    \/ GenerateContentReturns
    \/ GetFinalResult

Spec == Init /\ [][Next]_vars

----------------------------------------------------------------------------
(* _validate_judgment on its own: every object over these field values,     *)
(* with any subset of the six fields missing, and the values that are no    *)
(* object                                                                   *)

Absent == [t |-> "absent", v |-> ""]

ValidityInputs ==
    {Absent, None, Str("VALID"), Str("INVALID"), Str("UNCLEAR"), Str("valid"),
     Str(""), Str("bot"), Num("1"), True}
WinnerInputs ==
    {Absent, None, Str("user"), Str("bot"), Str("draw"), Str("tie"), Str("User"),
     Str("VALID"), Num("0"), False}
MoveInputs == {Absent, None, Str("rock"), Str("bomb"), Str("lizard")}
TextInputs == {Absent, None, Str("r")}
FlagInputs == {Absent, None, True, False, Str("yes"), Num("0")}

\* the object holding the fields of c that are not Absent
ObjectOf(c) == Dict([k \in {f \in DOMAIN c : c[f] # Absent} |-> c[k]])

ValidateInputs ==
    { ObjectOf(c) : c \in [move_validity : ValidityInputs, user_move : MoveInputs,
                           reasoning : TextInputs, round_winner : WinnerInputs,
                           round_explanation : TextInputs,
                           bomb_used_this_round : FlagInputs] }
    \cup {NonDict(k) : k \in {"list", "str", "int", "NoneType"}}

InitValidate ==
    /\ GameInit
    /\ ParseIdle
    /\ MainIdle
    /\ vj_in \in ValidateInputs
    /\ vj_out = NotValidated

Validate ==
    /\ vj_out = NotValidated
    /\ vj_out' = ValidateJudgment(vj_in)
    /\ UNCHANGED <<vj_in, game_vars, parse_vars, main_vars>>

NextValidate == Validate

SpecValidate == InitValidate /\ [][NextValidate]_vars

\* ---------------------------------------------------------------------------
\* _parse_llm_response on its own: a reply body, bare and inside a code fence
\* ---------------------------------------------------------------------------
JsonTag == <<"j", "s", "o", "n">>

\* body inside a fence: the opening marker with or without the json tag, the
\* closing marker, sep between the markers and the body, pad around the whole
Fenced(body, tag, sep, pad) ==
    pad \o (IF tag = "json" THEN FenceJson ELSE Fence) \o sep \o body \o sep
        \o Fence \o pad

FenceTags == {"json", "plain"}
FenceSeps == {<<>>, <<"\n">>, <<" ">>}
FencePads == {<<>>, <<"\n">>}

\* reply bodies: each document alone, inside whitespace, already inside a
\* fence, next to a stray marker or tag; and texts that are no document
ParseBodies ==
    UNION { { <<d>>, <<" ", d, "\n">>,
              FenceJson \o <<"\n", d, "\n">> \o Fence,
              Fence \o <<d>> \o Fence,
              <<d>> \o Fence,
              Fence \o <<d>>,
              JsonTag \o <<d>>,
              <<d, "x">> } : d \in DocumentNames }
    \cup {<<>>, <<" ">>, <<"x">>, JsonTag}

InitParse ==
    /\ GameInit
    /\ ValidateIdle
    /\ MainIdle
    /\ parse_in \in [body : ParseBodies, tag : FenceTags, sep : FenceSeps,
                      pad : FencePads]
    /\ parse_out = NotParsed

Parse ==
    /\ parse_out = NotParsed
    /\ parse_out' =
          [bare   |-> ParseLlmResponse(parse_in.body),
           fenced |-> ParseLlmResponse(Fenced(parse_in.body, parse_in.tag,
                                              parse_in.sep, parse_in.pad))]
    /\ UNCHANGED <<parse_in, game_vars, validate_vars, main_vars>>

NextParse == Parse

SpecParse == InitParse /\ [][NextParse]_vars

\* ---------------------------------------------------------------------------
\* main: the API key, the loop of max_rounds prompts, the final result
\* ---------------------------------------------------------------------------
max_rounds == 5

\* what the user types at a prompt, before .strip()
ApiKeyInputs == {<<>>, <<" ">>, <<"k">>}
RawInputs == {<<>>, <<" ">>, <<" ", "rock", " ">>}

\* the characters of a text as one string
RECURSIVE Join(_)
Join(text) == IF text = <<>> THEN "" ELSE Head(text) \o Join(Tail(text))

\* variant: no input is taken for empty
NotNever(text) == FALSE

\* not user_input, not api_key
Not(text) == text = <<>>

\* replies of the service during a game played through main
MainReplyTexts == {Wrap("json", <<"user_wins">>)}

InitMain == GameInit /\ ValidateIdle /\ ParseIdle /\ MainIdle

\* api_key = input(...).strip(); if not api_key: return; game = GameEngine(api_key)
MainApiKey ==
    /\ main_pc = "key"
    /\ \E raw \in ApiKeyInputs :
          LET api_key == Strip(raw) IN
          main_pc' = IF Not(api_key) THEN "aborted" ELSE "loop"
    /\ UNCHANGED <<prompts, nonempty, finals, game_vars, validate_vars, parse_vars>>

\* one pass of the loop with if not user_input: continue
MainSkipsEmpty ==
    /\ main_pc = "loop"
    /\ pc = "idle"
    /\ prompts < max_rounds
    /\ \E raw \in RawInputs :
          LET text == Strip(raw) IN
          /\ Not(text)
          /\ nonempty' = nonempty + (IF text = <<>> THEN 0 ELSE 1)
    /\ prompts' = prompts + 1
    /\ UNCHANGED <<main_pc, finals, game_vars, validate_vars, parse_vars>>

\* one pass of the loop up to the request play_round makes
MainPlaysRound ==
    /\ main_pc = "loop"
    /\ pc = "idle"
    /\ prompts < max_rounds
    /\ \E raw \in RawInputs :
          LET text == Strip(raw) IN
          /\ ~Not(text)
          /\ nonempty' = nonempty + (IF text = <<>> THEN 0 ELSE 1)
          /\ PlayRoundStart(Join(text))
    /\ prompts' = prompts + 1
    /\ UNCHANGED <<main_pc, finals, validate_vars, parse_vars>>

\* the service answers with a text, and play_round returns to the loop
MainServiceReturns ==
    /\ pc = "judging"
    /\ \E t \in MainReplyTexts : PlayRoundResume(Text(t))

\* final = game.get_final_result(), after the loop
MainGameOver ==
    /\ main_pc = "loop"
    /\ pc = "idle"
    /\ prompts = max_rounds
    /\ final' = FinalResult
    /\ finals' = finals + 1
    /\ main_pc' = "over"
    /\ UNCHANGED <<round_num, bomb_used, user_score, bot_score, rounds_history,
                   pc, user_input, bot_move, request, round_judgment, returned,
                   escaped, calls, service_calls, outcome, prompts, nonempty,
                   validate_vars, parse_vars>>

NextMain ==
    \/ MainApiKey
    \/ MainSkipsEmpty
    \/ MainPlaysRound
    \/ GenerateContentRaises
    \/ MainServiceReturns
    \/ MainGameOver

\* the user answers every prompt and the service answers every request
SpecMain == InitMain /\ [][NextMain]_vars /\ WF_vars(NextMain)

----------------------------------------------------------------------------
(* Properties *)

\* a step in which a play_round call ends
Completes == pc = "judging" /\ pc' = "idle"

\* the last entry of a history
Last(h) == h[Len(h)]

\* a step in which a play_round call ends by returning a result, having
\* appended exactly one entry
Recorded ==
    /\ Completes
    /\ ~escaped'
    /\ returned'.op = "play_round"
    /\ Len(rounds_history') = Len(rounds_history) + 1

\* C1: round_num starts at 0, goes up by exactly 1 in the step that starts a
\* play_round call and is left alone by every other step, whatever the
\* service replies; so it never decreases.
C1_RoundNumStepsByOne ==
    /\ round_num = 0
    /\ [][IF calls' = calls + 1
          THEN round_num' = round_num + 1
          ELSE round_num' = round_num]_vars

\* two calls were made and the second one got an undecodable reply
C1_Witness ==
    /\ pc = "idle"
    /\ calls = 2
    /\ round_num = 2
    /\ outcome = "undecodable"

\* C2: bomb_used starts false and, once true, is true after every later step
\* (play_round and get_final_result alike), whatever later judgments report.
C2_BombUsedMonotonic ==
    /\ bomb_used = FALSE
    /\ [][bomb_used => bomb_used']_vars

\* the bomb was reported in round 1 and round 2 was a service failure, whose
\* fallback judgment reports bomb_used_this_round = False
C2_Witness ==
    /\ pc = "idle"
    /\ Len(rounds_history) = 2
    /\ rounds_history[1].user_move = Str("bomb")
    /\ outcome = "exception"
    /\ bomb_used

\* C3: a step that ends a play_round call changes the scores in exactly one of
\* three ways, by the recorded winner: user_score + 1 only (user),
\* bot_score + 1 only (bot), neither (draw); no other step changes a score.
C3_ScoresStepByWinner ==
    [][IF Completes
       THEN /\ Recorded
            /\ LET w == Last(rounds_history').winner IN
               \/ w = Str("user") /\ user_score' = user_score + 1 /\ bot_score' = bot_score
               \/ w = Str("bot") /\ bot_score' = bot_score + 1 /\ user_score' = user_score
               \/ w = Str("draw") /\ user_score' = user_score /\ bot_score' = bot_score
       ELSE user_score' = user_score /\ bot_score' = bot_score]_vars

\* the user won round 1 and round 2 was a draw
C3_Witness ==
    /\ pc = "idle"
    /\ Len(rounds_history) = 2
    /\ rounds_history[1].winner = Str("user")
    /\ rounds_history[2].winner = Str("draw")
    /\ user_score = 1
    /\ bot_score = 0

\* C4: between calls rounds_history has one entry per play_round call made,
\* entry k carries round = k; the step that ends the k-th call appends one
\* entry with round = k and that call's input and bot move, and no step
\* changes or removes an entry already there.
C4_HistoryAppendOnly ==
    /\ [](pc = "idle" =>
            /\ Len(rounds_history) = calls
            /\ \A k \in 1..Len(rounds_history) : rounds_history[k].round = k)
    /\ [][IF Completes
          THEN /\ Len(rounds_history') = Len(rounds_history) + 1
               /\ SubSeq(rounds_history', 1, Len(rounds_history)) = rounds_history
               /\ Last(rounds_history').round = calls
               /\ Last(rounds_history').user_input = user_input
               /\ Last(rounds_history').bot_move = bot_move
          ELSE rounds_history' = rounds_history]_vars

\* two calls with different bot moves, the first one answered by a service
\* failure and the second by an undecodable text
C4_Witness ==
    /\ pc = "idle"
    /\ calls = 2
    /\ Len(rounds_history) = 2
    /\ rounds_history[1].bot_move = "paper"
    /\ rounds_history[2].bot_move = "rock"
    /\ rounds_history[1].reasoning = Str("Error processing move: ServiceUnavailable")
    /\ outcome = "undecodable"

\* C5: once bomb_used is true, no later round is recorded with
\* user_move = "bomb" and validity = "VALID".
C5_BombAtMostOnce ==
    [][(bomb_used /\ Recorded) =>
          ~ /\ Last(rounds_history').user_move = Str("bomb")
            /\ Last(rounds_history').validity = Str("VALID")]_vars

\* C6: in every round recorded with validity INVALID or UNCLEAR the recorded
\* winner is the bot, bot_score goes up by 1 and user_score does not.
C6_InvalidWastesTurn ==
    [][(Recorded /\ Last(rounds_history').validity \in {Str("INVALID"), Str("UNCLEAR")}) =>
          /\ Last(rounds_history').winner = Str("bot")
          /\ bot_score' = bot_score + 1
          /\ user_score' = user_score]_vars

\* C7: when the service call raises, play_round returns (nothing escapes) a
\* result with winner bot, validity INVALID and user_move null; bot_score
\* goes up by 1, user_score and bomb_used stay, round_num keeps the increment
\* of this call, one history entry is appended, and the engine is idle again.
C7_ServiceFailureFallsBack ==
    [][(Completes /\ outcome' = "exception") =>
          /\ Recorded
          /\ returned'.winner = Str("bot")
          /\ returned'.validity = Str("INVALID")
          /\ returned'.user_move = None
          /\ Last(rounds_history').winner = Str("bot")
          /\ bot_score' = bot_score + 1
          /\ user_score' = user_score
          /\ bomb_used' = bomb_used
          /\ round_num' = calls
          /\ Len(rounds_history') = round_num']_vars

\* a service failure in round 2, after the user won round 1
C7_Witness ==
    /\ pc = "idle"
    /\ outcome = "exception"
    /\ Len(rounds_history) = 2
    /\ user_score = 1
    /\ bot_score = 1
    /\ returned.op = "play_round"
    /\ returned.round_number = 2

\* C8 as claimed: after a reply whose text does not decode, the error has
\* left play_round and no fallback result was returned.
C8_DecodeErrorPropagates ==
    (pc = "idle" /\ outcome = "undecodable") =>
        /\ escaped
        /\ returned.op # "play_round"

\* C8 as amended: a reply whose text does not decode is handled like a
\* service failure: the decoding error is caught by judge_move's except
\* clause, nothing leaves play_round, and the round is recorded and returned
\* with the fallback judgment (INVALID, null move, bot wins, reasoning naming
\* the error).
C8_DecodeErrorFallsBack ==
    (pc = "idle" /\ outcome = "undecodable") =>
        /\ ~escaped
        /\ returned.op = "play_round"
        /\ returned.validity = Str("INVALID")
        /\ returned.user_move = None
        /\ returned.winner = Str("bot")
        /\ returned.reasoning = Str("Error processing move: Expecting value")
        /\ returned.explanation = Str("Technical error - bot wins by default")
        /\ Len(rounds_history) = calls
        /\ Last(rounds_history).winner = Str("bot")
        /\ Last(rounds_history).validity = Str("INVALID")

\* the first round got an undecodable reply and was returned as a bot win
C8_Witness ==
    /\ pc = "idle"
    /\ outcome = "undecodable"
    /\ calls = 1
    /\ bot_score = 1
    /\ returned.op = "play_round"

\* C9: whatever the service does, nothing leaves play_round, every call that
\* ended has returned a result and recorded an entry, and every returned and
\* recorded winner is user, bot or draw and validity VALID, INVALID or UNCLEAR.
C9_EveryRoundHasOutcome ==
    /\ ~escaped
    /\ pc = "idle" => Len(rounds_history) = calls
    /\ (pc = "idle" /\ outcome # "none") => returned.op = "play_round"
    /\ returned.op = "play_round" =>
          /\ returned.winner \in ValidWinners
          /\ returned.validity \in ValidValidities
    /\ \A k \in 1..Len(rounds_history) :
          /\ rounds_history[k].winner \in ValidWinners
          /\ rounds_history[k].validity \in ValidValidities

\* round 1 was answered by an object with out-of-enum validity and a missing
\* field, round 2 by a text that decodes to a list
C9_Witness ==
    /\ pc = "idle"
    /\ outcome = "list"
    /\ Len(rounds_history) = 2
    /\ rounds_history[1].reasoning = None
    /\ rounds_history[1].validity = Str("INVALID")
    /\ returned.op = "play_round"
    /\ returned.winner = Str("bot")

\* C10: for every object, _validate_judgment returns it with move_validity in
\* {VALID, INVALID, UNCLEAR}: a value of that set is kept, and any other
\* value, a missing field and null included, becomes INVALID.
C10_ValidityCoerced ==
    (vj_out # NotValidated /\ vj_in.kind = "dict") =>
        /\ ~vj_out.raised
        /\ Get(vj_out.value, "move_validity") \in ValidValidities
        /\ IF /\ "move_validity" \in DOMAIN vj_in.fields
              /\ vj_in.fields["move_validity"] \in {Str("VALID"), Str("INVALID"), Str("UNCLEAR")}
           THEN Get(vj_out.value, "move_validity") = vj_in.fields["move_validity"]
           ELSE Get(vj_out.value, "move_validity") = Str("INVALID")

\* an object without move_validity was validated to INVALID
C10_Witness ==
    /\ vj_out # NotValidated
    /\ vj_in.kind = "dict"
    /\ "move_validity" \notin DOMAIN vj_in.fields
    /\ "round_winner" \in DOMAIN vj_in.fields
    /\ ~vj_out.raised
    /\ Get(vj_out.value, "move_validity") = Str("INVALID")

\* C11: for every object, _validate_judgment returns it with round_winner in
\* {user, bot, draw}: a value of that set is kept, and any other value, a
\* missing field and null included, becomes "bot".
C11_WinnerCoerced ==
    (vj_out # NotValidated /\ vj_in.kind = "dict") =>
        /\ ~vj_out.raised
        /\ Get(vj_out.value, "round_winner") \in {Str("user"), Str("bot"), Str("draw")}
        /\ IF /\ "round_winner" \in DOMAIN vj_in.fields
              /\ vj_in.fields["round_winner"] \in {Str("user"), Str("bot"), Str("draw")}
           THEN Get(vj_out.value, "round_winner") = vj_in.fields["round_winner"]
           ELSE Get(vj_out.value, "round_winner") = Str("bot")

\* an object whose round_winner was null was validated to "bot"
C11_Witness ==
    /\ vj_out # NotValidated
    /\ vj_in.kind = "dict"
    /\ "round_winner" \in DOMAIN vj_in.fields
    /\ vj_in.fields["round_winner"] = None
    /\ ~vj_out.raised
    /\ Get(vj_out.value, "round_winner") = Str("bot")

\* the four fields _validate_judgment only fills in, never rewrites
UncheckedFields == {"user_move", "reasoning", "round_explanation", "bomb_used_this_round"}

\* C15: for every object, with any subset of the six required fields
\* missing, _validate_judgment does not fail; its result has all six fields;
\* a missing field other than move_validity and round_winner is null, and a
\* present one other than those two keeps its value.
C15_MissingFieldsFilled ==
    (vj_out # NotValidated /\ vj_in.kind = "dict") =>
        /\ ~vj_out.raised
        /\ vj_out.value.kind = "dict"
        /\ {"move_validity", "user_move", "reasoning", "round_winner",
            "round_explanation", "bomb_used_this_round"}
               \subseteq DOMAIN vj_out.value.fields
        /\ \A k \in UncheckedFields :
              vj_out.value.fields[k] =
                 IF k \in DOMAIN vj_in.fields THEN vj_in.fields[k] ELSE None

\* an object without reasoning, and with a user_move, was validated: reasoning
\* is null and user_move is as it was
C15_Witness ==
    /\ vj_out # NotValidated
    /\ vj_in.kind = "dict"
    /\ "reasoning" \notin DOMAIN vj_in.fields
    /\ "user_move" \in DOMAIN vj_in.fields
    /\ vj_in.fields["user_move"] = Str("lizard")
    /\ ~vj_out.raised
    /\ vj_out.value.fields["reasoning"] = None
    /\ vj_out.value.fields["user_move"] = Str("lizard")

\* C12: for every reply body t and every fence (json or plain, with or
\* without whitespace around it and inside it), _parse_llm_response gives
\* for the fenced t what it gives for t itself.
C12_FenceTransparent ==
    parse_out # NotParsed => parse_out.fenced = parse_out.bare

\* a body that, without the whitespace around it, neither starts with a fence
\* marker or the json tag nor ends with a fence marker
PlainBody(t) ==
    LET body == Strip(t) IN
    /\ ~StartsWith(body, Fence)
    /\ ~StartsWith(body, JsonTag)
    /\ ~EndsWith(body, Fence)

\* C12, amended: the same, for every body that does not itself start with a
\* fence marker or the json tag, or end with a fence marker.
C12_FenceTransparentOnPlainBody ==
    (parse_out # NotParsed /\ PlainBody(parse_in.body)) =>
        parse_out.fenced = parse_out.bare

\* a document inside whitespace, in a json fence with line breaks, decoded to
\* the same object as without the fence
C12_Witness ==
    /\ parse_out # NotParsed
    /\ parse_in.body = <<" ", "user_wins", "\n">>
    /\ parse_in.tag = "json"
    /\ parse_in.sep = <<"\n">>
    /\ ~parse_out.fenced.raised
    /\ parse_out.fenced.value = Documents["user_wins"]
    /\ parse_out.bare = parse_out.fenced

\* C13: whenever get_final_result has returned, its result is "User wins!"
\* exactly when user_score > bot_score, "Bot wins!" exactly when bot_score >
\* user_score and "Draw!" exactly when they are equal; final_score is the
\* current scores, rounds_played the number of play_round calls made, and
\* history the whole history, entry i being round i.
C13_FinalResult ==
    final.op = "get_final_result" =>
        /\ (final.result = "User wins!") <=> (user_score > bot_score)
        /\ (final.result = "Bot wins!") <=> (bot_score > user_score)
        /\ (final.result = "Draw!") <=> (user_score = bot_score)
        /\ final.final_score = [user |-> user_score, bot |-> bot_score]
        /\ final.rounds_played = calls
        /\ final.history = rounds_history
        /\ Len(final.history) = calls
        /\ \A i \in 1..Len(final.history) : final.history[i].round = i

\* the bot won round 1, the user round 2, and the final result is a draw
\* after 2 rounds
C13_Witness ==
    /\ final.op = "get_final_result"
    /\ calls = 2
    /\ Len(final.history) = 2
    /\ final.history[1].winner = Str("bot")
    /\ final.history[2].winner = Str("user")
    /\ final.result = "Draw!"
    /\ final.rounds_played = 2

\* the field bomb_used_this_round of the judgment a completing call got
FlagReported == Get(round_judgment', "bomb_used_this_round")

\* C14, as stated: the step that starts a play_round call leaves bomb_used
\* alone, and the step that completes it makes bomb_used equal to (bomb_used
\* before) or (the validated judgment's bomb_used_this_round is the value
\* true).
C14_BombUsedIffFlagIsTrue ==
    [][/\ calls' = calls + 1 => bomb_used' = bomb_used
       /\ Recorded => bomb_used' = (bomb_used \/ FlagReported = True)]_vars

\* C14, amended: the same with truth in Python's sense: true, or a number
\* other than 0, or a non-empty string, list or object; false, null, 0, ""
\* or a missing field leave bomb_used as it was.
C14_BombUsedIffFlagIsTruthy ==
    [][/\ calls' = calls + 1 => bomb_used' = bomb_used
       /\ Recorded => bomb_used' = (bomb_used \/ Truthy(FlagReported))
       /\ (Recorded /\ FlagReported \in {True, Str("yes")}) => bomb_used'
       /\ (Recorded /\ FlagReported \in {False, None, Num("0")})
             => bomb_used' = bomb_used]_vars

\* the first round got bomb_used_this_round = "yes", a judgment of validity
\* INVALID, and bomb_used is set
C14_Witness ==
    /\ pc = "idle"
    /\ calls = 1
    /\ returned.op = "play_round"
    /\ Get(round_judgment, "bomb_used_this_round") = Str("yes")
    /\ returned.validity = Str("INVALID")
    /\ bomb_used

\* C16: the service has been invoked as many times as play_round has been
\* called; an invocation is made only by the step that starts a call, one
\* per call, and a call starts only when none is outstanding; the step that
\* ends a call, by a failure or by any reply, makes no invocation.
C16_OneInvocationPerCall ==
    /\ [](service_calls = calls)
    /\ [][/\ calls' = calls + 1 =>
               (pc = "idle" /\ pc' = "judging" /\ service_calls' = service_calls + 1)
          /\ calls' = calls => service_calls' = service_calls
          /\ calls' \in {calls, calls + 1}]_vars

\* two calls are over, the second ended by a failure of the service, and the
\* service was invoked twice
C16_Witness ==
    /\ pc = "idle"
    /\ calls = 2
    /\ outcome = "exception"
    /\ service_calls = 2

\* C17: once play_round has returned, its result has the scores as they are
\* after this round's update_score, the round number as it is after the
\* increment, and user_move, bot_move, validity, winner and reasoning of the
\* history entry the call appended.
C17_ResultReflectsUpdate ==
    (pc = "idle" /\ returned.op = "play_round") =>
        /\ returned.current_score = [user |-> user_score, bot |-> bot_score]
        /\ returned.round_number = round_num
        /\ Len(rounds_history) = round_num
        /\ returned.user_move = Last(rounds_history).user_move
        /\ returned.bot_move = Last(rounds_history).bot_move
        /\ returned.validity = Last(rounds_history).validity
        /\ returned.winner = Last(rounds_history).winner
        /\ returned.reasoning = Last(rounds_history).reasoning

\* the user won both rounds and the second result shows 2 : 0
C17_Witness ==
    /\ pc = "idle"
    /\ returned.op = "play_round"
    /\ returned.round_number = 2
    /\ returned.winner = Str("user")
    /\ returned.current_score = [user |-> 2, bot |-> 0]
    /\ user_score = 2

\* C18: while a call waits for the judge, the bot move is one of rock, paper,
\* scissors and is the one in the request; the step that ends the call, with
\* any reply, leaves it as it is and puts it in the history entry and in the
\* result.
C18_BotMoveFrozen ==
    /\ [](pc = "judging" =>
            /\ bot_move \in {"rock", "paper", "scissors"}
            /\ request.bot_move = bot_move)
    /\ [][Completes =>
            /\ bot_move' = bot_move
            /\ request' = request
            /\ Recorded =>
                  /\ Last(rounds_history').bot_move = bot_move
                  /\ returned'.bot_move = bot_move]_vars

\* a round in which the service reported a bomb for the user, with the bot's
\* paper in the request, the history and the result
C18_Witness ==
    /\ pc = "idle"
    /\ returned.op = "play_round"
    /\ returned.user_move = Str("bomb")
    /\ bot_move = "paper"
    /\ request.bot_move = "paper"
    /\ returned.bot_move = "paper"
    /\ Last(rounds_history).bot_move = "paper"

\* number of entries of history h with winner w
Won(h, w) == Cardinality({i \in 1..Len(h) : h[i].winner = Str(w)})

\* C19: between play_round calls, user_score is the number of history
\* entries won by the user, bot_score the number won by the bot, and the two
\* scores plus the number of draws are round_num and the length of the
\* history.
C19_ScoresAgreeWithHistory ==
    pc = "idle" =>
        /\ user_score = Won(rounds_history, "user")
        /\ bot_score = Won(rounds_history, "bot")
        /\ user_score + bot_score + Won(rounds_history, "draw") = round_num
        /\ round_num = Len(rounds_history)

\* after a draw and a round won by the bot
C19_Witness ==
    /\ pc = "idle"
    /\ round_num = 2
    /\ rounds_history[1].winner = Str("draw")
    /\ rounds_history[2].winner = Str("bot")
    /\ user_score = 0
    /\ bot_score = 1

====
